---------------------------- MODULE Spec2Model ----------------------------
(***************************************************************************)
(* Model of misc/class_scraper.py: the UW course-catalog scraper.          *)
(*                                                                         *)
(* Text is a sequence of characters (one-character strings, plus the named *)
(* characters NL, TAB, NBSP, FW_A below).  The script is one sequential    *)
(* process; pc is its position.  The header regex is translated to a       *)
(* syntax tree (header_pattern) and run by a backtracking matcher (M) that *)
(* tries alternatives in the priority order of Python's re module.         *)
(*                                                                         *)
(* The calls into libraries (requests.get, BeautifulSoup, insert/execute,  *)
(* time.sleep) return: what they return is chosen from the input sets      *)
(* below.  A call that raises would end the script where it stands, since  *)
(* the script has no exception handler; that is not part of the model.     *)
(***************************************************************************)
EXTENDS Integers, Sequences, FiniteSets, TLC

VARIABLES
    supabase_url,   \* os.getenv('SUPABASE_URL'): None, "" or a value
    supabase_key,   \* os.getenv('SUPABASE_KEY')
    pc,             \* position of the script
    links,          \* main_soup.find_all('a'): the <a> elements of the index page
    li,             \* index of the <a> element the discovery loop is at
    departments,    \* the departments list
    di,             \* index of the department the main loop is at
    page,           \* dep_soup.find_all('p'): the <p> elements of the page
    pi,             \* index of the <p> element the scan loop is at
    courses,        \* the per-department list of records
    header_norm,    \* the last normalized header
    match,          \* the last result of header_pattern.match
    sent,           \* the batch handed to insert() for the current department
    response,       \* what insert(...).execute() returned for it
    log             \* external effects so far, in order

vars == <<supabase_url, supabase_key, pc, links, li, departments, di, page, pi,
          courses, header_norm, match, sent, response, log>>

None == "None"

-----------------------------------------------------------------------------
(* Characters *)

NL   == "\n"
TAB  == "\t"
NBSP == "U+00A0"      \* no-break space
FW_A == "U+FF21"      \* fullwidth latin capital letter A
AI_3 == "U+0663"      \* arabic-indic digit three

\* str.isspace / the regex class \s
Whitespace == {" ", NL, TAB, NBSP}

\* the regex class [A-Z]
Upper == {"A","B","C","D","E","F","G","H","I","J","K","L","M",
          "N","O","P","Q","R","S","T","U","V","W","X","Y","Z"}

\* the regex class \d (any Unicode decimal digit)
Digit == {"0","1","2","3","4","5","6","7","8","9", AI_3}

-----------------------------------------------------------------------------
(* String operations *)

RECURSIVE Flatten(_)
Flatten(ss) == IF ss = <<>> THEN <<>> ELSE Head(ss) \o Flatten(Tail(ss))

\* <<>> \o f turns a function on 1..n into the tuple it equals
Indices(s) == <<>> \o [i \in 1..Len(s) |-> i]

\* str.strip(): from the first to the last character that is not whitespace
Strip(s) ==
    IF \A i \in DOMAIN s : s[i] \in Whitespace THEN <<>>
    ELSE LET first == CHOOSE i \in DOMAIN s :
                         /\ s[i] \notin Whitespace
                         /\ \A j \in 1..(i - 1) : s[j] \in Whitespace
             last  == CHOOSE i \in DOMAIN s :
                         /\ s[i] \notin Whitespace
                         /\ \A j \in (i + 1)..Len(s) : s[j] \in Whitespace
         IN SubSeq(s, first, last)

\* str.split(sep) for a one-character separator: the pieces between
\* consecutive occurrences of sep
Split(s, sep) ==
    LET cuts == <<0>> \o SelectSeq(Indices(s), LAMBDA i : s[i] = sep)
                     \o <<Len(s) + 1>>
    IN <<>> \o [k \in 1..(Len(cuts) - 1) |->
                  SubSeq(s, cuts[k] + 1, cuts[k + 1] - 1)]

\* str.replace(old, new) for one-character old, new a string
Replace(s, old, new) ==
    IF \A i \in DOMAIN s : s[i] # old THEN s
    ELSE Flatten([i \in DOMAIN s |-> IF s[i] = old THEN new ELSE <<s[i]>>])

\* sub in s
RECURSIVE Contains(_, _)
Contains(s, sub) ==
    IF Len(sub) > Len(s) THEN FALSE
    ELSE IF SubSeq(s, 1, Len(sub)) = sub THEN TRUE
    ELSE Contains(Tail(s), sub)

\* s.endswith(suffix)
EndsWith(s, suffix) ==
    /\ Len(suffix) =< Len(s)
    /\ SubSeq(s, Len(s) - Len(suffix) + 1, Len(s)) = suffix

\* unicodedata.normalize('NFKC', s) on the model's characters: the no-break
\* space and the fullwidth letter have compatibility decompositions
NFKCChar(c) ==
    IF c = NBSP THEN <<" ">>
    ELSE IF c = FW_A THEN <<"A">>
    ELSE <<c>>

NFKC(s) ==
    IF \A i \in DOMAIN s : NFKCChar(s[i]) = <<s[i]>> THEN s
    ELSE Flatten([i \in DOMAIN s |-> NFKCChar(s[i])])

\* re.sub(r'\s+', ' ', s): each maximal run of whitespace becomes one space
CollapseWhitespace(s) ==
    LET kept == SelectSeq(Indices(s),
                          LAMBDA i : \/ s[i] \notin Whitespace
                                     \/ i = 1
                                     \/ s[i - 1] \notin Whitespace)
    IN <<>> \o [k \in 1..Len(kept) |->
                  IF s[kept[k]] \in Whitespace THEN " " ELSE s[kept[k]]]

\* mutant: whitespace runs are not collapsed
Normalize_NoCollapse(header) == Strip(Replace(NFKC(header), NBSP, <<" ">>))

\* lines 69-70
Normalize(header) ==
    Strip(CollapseWhitespace(Replace(NFKC(header), NBSP, <<" ">>)))

\* lines 62-63: the stripped non-empty lines of a paragraph's text
Lines(text) ==
    LET raw  == Split(Strip(text), NL)
        kept == SelectSeq(raw, LAMBDA line : Strip(line) # <<>>)
    IN <<>> \o [i \in DOMAIN kept |-> Strip(kept[i])]

-----------------------------------------------------------------------------
(* The header regex, lines 45-47 *)

Set(S)        == [t |-> "set", neg |-> FALSE, s |-> S]     \* [...] or a literal
NotSet(S)     == [t |-> "set", neg |-> TRUE, s |-> S]      \* [^...]
Dot           == NotSet({NL})                              \* .
\* a repeated character class: c*, c+, c+?
Star(c)       == [t |-> "rep", min |-> 0, greedy |-> TRUE, class |-> c]
Plus(c)       == [t |-> "rep", min |-> 1, greedy |-> TRUE, class |-> c]
\* mutant: the lazy repetition taken as a greedy one
LazyPlus_Greedy(c) == [t |-> "rep", min |-> 1, greedy |-> TRUE, class |-> c]
LazyPlus(c)   == [t |-> "rep", min |-> 1, greedy |-> FALSE, class |-> c]
GroupStar(b)  == [t |-> "star", body |-> b]                \* (?:b)*
Opt(b)        == [t |-> "opt", body |-> b]                 \* (?:b)?
Group(n, b)   == [t |-> "group", name |-> n, body |-> b]   \* (?P<n>b)
Bol           == [t |-> "bol"]                             \* ^
Eol           == [t |-> "eol"]                             \* $

GroupNames == {"code", "title", "credits", "tags"}

header_pattern ==
    << Bol,
       Group("code", << Plus(Set(Upper)),
                        GroupStar(<<Plus(Set(Whitespace)), Plus(Set(Upper))>>),
                        Plus(Set(Whitespace)),
                        Plus(Set(Digit)),
                        Opt(<<Set(Upper)>>) >>),
       Plus(Set(Whitespace)),
       Group("title", << LazyPlus(Dot) >>),
       Star(Set(Whitespace)),
       Set({"("}),
       Group("credits", << Star(NotSet({")"})) >>),
       Set({")"}),
       Star(Set(Whitespace)),
       Opt(<<Group("tags", << Star(Dot) >>)>>),
       Eol >>

NoMatch == [ok |-> FALSE]

InClass(c, ch) == (ch \in c.s) # c.neg

\* how many characters of s from pos on are in class c
RunLength(s, pos, c) ==
    LET stop == CHOOSE i \in pos..(Len(s) + 1) :
                   /\ i = Len(s) + 1 \/ ~InClass(c, s[i])
                   /\ \A j \in pos..(i - 1) : InClass(c, s[j])
    IN stop - pos

Longest(tries)  == CHOOSE x \in tries : \A y \in tries : y[1] =< x[1]
Shortest(tries) == CHOOSE x \in tries : \A y \in tries : x[1] =< y[1]

\* Backtracking matcher: k is the rest of the pattern (the continuation), pos
\* the position in s, caps the group spans so far.  Among the alternatives of
\* a node, the first in priority order that lets the whole rest match wins, as
\* in Python's re: a greedy repetition takes the most characters with which
\* the rest still matches, a lazy one the fewest.
RECURSIVE M(_, _, _, _)
M(k, s, pos, caps) ==
    IF k = <<>> THEN [ok |-> TRUE, caps |-> caps]
    ELSE
    LET n    == Head(k)
        rest == Tail(k)
    IN
    CASE n.t = "set" ->
           IF pos =< Len(s) /\ InClass(n, s[pos])
           THEN M(rest, s, pos + 1, caps) ELSE NoMatch
      [] n.t = "rep" ->
           LET tries == {<<j, M(rest, s, pos + j, caps)>> :
                            j \in n.min..RunLength(s, pos, n.class)}
               fits  == {x \in tries : x[2].ok}
           IN IF fits = {} THEN NoMatch
              ELSE IF n.greedy THEN Longest(fits)[2] ELSE Shortest(fits)[2]
      [] n.t = "bol" ->
           IF pos = 1 THEN M(rest, s, pos, caps) ELSE NoMatch
      [] n.t = "eol" ->
           IF pos = Len(s) + 1 \/ (pos = Len(s) /\ s[pos] = NL)
           THEN M(rest, s, pos, caps) ELSE NoMatch
      [] n.t = "group" ->
           M(<<[t |-> "open", name |-> n.name]>> \o n.body
                 \o <<[t |-> "close", name |-> n.name]>> \o rest, s, pos, caps)
      [] n.t = "open" ->
           M(rest, s, pos, [caps EXCEPT ![n.name] = <<pos, pos>>])
      [] n.t = "close" ->
           M(rest, s, pos, [caps EXCEPT ![n.name] = <<caps[n.name][1], pos>>])
      [] n.t = "opt" ->
           LET r == M(n.body \o rest, s, pos, caps)
           IN IF r.ok THEN r ELSE M(rest, s, pos, caps)
      [] n.t = "star" ->
           LET r == M(n.body \o k, s, pos, caps)
           IN IF r.ok THEN r ELSE M(rest, s, pos, caps)

\* header_pattern.match(s): NoMatch (None), or ok with the span <<start, end>>
\* of each group (end exclusive; <<0, 0>> for a group that took no part)
Match(s) == M(header_pattern, s, 1, [g \in GroupNames |-> <<0, 0>>])

\* match.group(name)
GroupText(s, m, name) == SubSeq(s, m.caps[name][1], m.caps[name][2] - 1)

-----------------------------------------------------------------------------
(* Inputs: what the network returns, drawn from small sets *)

MaxLinks == 2      \* <a> elements on the index page
MaxParas == 2      \* <p> elements on a department page

RECURSIVE SeqsUpTo(_, _)
SeqsUpTo(S, n) ==
    IF n = 0 THEN {<<>>}
    ELSE LET shorter == SeqsUpTo(S, n - 1)
         IN shorter \cup {Append(q, x) : q \in {r \in shorter : Len(r) = n - 1}, x \in S}

\* line 20.  Nothing looks inside base_url: it is kept as one unit of text.
base_url == <<"https://www.washington.edu/students/crscat/">>

DotHtml  == <<".","h","t","m","l">>
Glossary == <<"g","l","o","s","s","a","r","y">>

\* <a> elements: has_href is whether a.get('href') is a string (not None),
\* href is that string, text is a.text
Anchors ==
    { [has_href |-> TRUE, href |-> <<"a","n","t","h",".","h","t","m","l">>, text |-> <<" ","A","n","t","h","r","o","p","o","l","o","g","y"," ","(","A","N","T","H",")"," ">>],
      [has_href |-> TRUE, href |-> <<"b","e",".","h","t","m","l">>, text |-> <<"B","u","i","l","t"," ","E","n","v"," ","(","B"," ","E",")">>],
      [has_href |-> TRUE, href |-> <<"g","l","o","s","s","a","r","y",".","h","t","m","l">>, text |-> <<"G","l","o","s","s","a","r","y">>],
      [has_href |-> TRUE, href |-> <<".",".","/","c","s",".","h","t","m","l">>, text |-> <<"C","S">>],
      [has_href |-> TRUE, href |-> <<".","h","t","m","l">>, text |-> <<"x">>],
      [has_href |-> TRUE, href |-> <<"#","t","o","p">>, text |-> <<"T","o","p">>],
      [has_href |-> FALSE, href |-> <<>>, text |-> <<"a","n","c","h","o","r">>] }

IndexPages == SeqsUpTo(Anchors, MaxLinks)

\* <p> elements: bold is whether p.find('b') finds an element, text is
\* p.get_text()
Paragraphs ==
    { [bold |-> TRUE,  text |-> <<"A","N","T","H"," ","1"," ","I","n","t","r","o"," ","(","5",")"," ","S","S","c",NL,"S","t","u","d","y"," ","o","f"," ","B"," ","E"," ","2"," ","(","3",")">>],
      [bold |-> TRUE,  text |-> <<" ",NL," ","B",NBSP,"E"," "," ","2","A"," ","B","u","i","l","t"," "," ","E","n","v"," ","(","1","-","5",")",NL,"B"," ","E"," ","3"," ","L","a","b"," ","(","2",")">>],
      [bold |-> TRUE,  text |-> <<"P","r","e","r","e","q","u","i","s","i","t","e",":"," ","A","N","T","H"," ","1",".">>],
      [bold |-> FALSE, text |-> <<"C","S"," ","3"," ","D","a","t","a"," ","(","4",")">>],
      [bold |-> TRUE,  text |-> <<"a","n","t","h"," ","1"," ","I","n","t","r","o"," ","(","5",")">>],
      [bold |-> TRUE,  text |-> <<" ",NL,TAB>>] }

DepartmentPages == SeqsUpTo(Paragraphs, MaxParas)

\* what insert(...).execute() returns: has is hasattr(response, 'error')
Responses ==
    { [has |-> FALSE, error |-> None],
      [has |-> TRUE,  error |-> None],
      [has |-> TRUE,  error |-> "error"] }

\* response before any insert of the department
NoResponse == [has |-> FALSE, error |-> None]

EnvValues == {None, "", "value"}

-----------------------------------------------------------------------------
(* The script *)

\* Python truthiness of an optional string
Truthy(v) == v # None /\ v # ""

\* mutant: only the URL is looked at
ConfigMissing_UrlOnly(url, key) == ~Truthy(url)

\* line 14
ConfigMissing(url, key) == ~Truthy(url) \/ ~Truthy(key)

\* mutant: the glossary page is not excluded
IsDepartmentLink_WithGlossary(a) ==
    /\ a.has_href /\ a.href # <<>>
    /\ EndsWith(a.href, DotHtml)
    /\ ~Contains(a.href, <<"/">>)
    /\ Len(a.href) > 5

\* line 30
IsDepartmentLink(a) ==
    /\ a.has_href /\ a.href # <<>>
    /\ EndsWith(a.href, DotHtml)
    /\ ~Contains(a.href, Glossary)
    /\ ~Contains(a.href, <<"/">>)
    /\ Len(a.href) > 5

\* lines 31-34
DepartmentOf(a) ==
    [abbrev |-> SubSeq(a.href, 1, Len(a.href) - 5),
     name   |-> Strip(a.text),
     url    |-> base_url \o a.href]

\* mutant: the code keeps its spaces
CourseData_KeepSpaces(hn, m) ==
    [code    |-> GroupText(hn, m, "code"),
     title   |-> GroupText(hn, m, "title"),
     credits |-> GroupText(hn, m, "credits")]

\* mutant: the tags are stored as well
CourseData_WithTags(hn, m) ==
    [code    |-> Replace(GroupText(hn, m, "code"), " ", <<>>),
     title   |-> GroupText(hn, m, "title"),
     credits |-> GroupText(hn, m, "credits"),
     tags    |-> GroupText(hn, m, "tags")]

\* lines 73-78
CourseData(hn, m) ==
    [code    |-> Replace(GroupText(hn, m, "code"), " ", <<>>),
     title   |-> GroupText(hn, m, "title"),
     credits |-> GroupText(hn, m, "credits")]

\* lines 67-79 on one header: the normalized header, the match, and the
\* records appended to courses (one, or none when there is no match)
ParseHeader(header) ==
    LET hn == Normalize(header)
        m  == Match(hn)
    IN [header_norm |-> hn,
        match       |-> m,
        emitted     |-> IF m.ok THEN <<CourseData(hn, m)>> ELSE <<>>]

\* line 84
InsertFailed(r) == r.has /\ Truthy(r.error)

Event(e, d, a) == [ev |-> e, dep |-> d, arg |-> a]

Init ==
    /\ supabase_url \in EnvValues
    /\ supabase_key \in EnvValues
    /\ pc = "start"
    /\ links = <<>>
    /\ li = 0
    /\ departments = <<>>
    /\ di = 0
    /\ page = <<>>
    /\ pi = 0
    /\ courses = <<>>
    /\ header_norm = <<>>
    /\ match = NoMatch
    /\ sent = <<>>
    /\ response = NoResponse
    /\ log = <<>>

\* lines 14-15: raise ValueError
StartupFail ==
    /\ pc = "start"
    /\ ConfigMissing(supabase_url, supabase_key)
    /\ pc' = "config_error"
    /\ UNCHANGED <<supabase_url, supabase_key, links, li, departments, di, page,
                   pi, courses, header_norm, match, sent, response, log>>

\* lines 14-17: create_client
StartupOk ==
    /\ pc = "start"
    /\ ~ConfigMissing(supabase_url, supabase_key)
    /\ log' = Append(log, Event("create_client", 0, <<>>))
    /\ pc' = "fetch_index"
    /\ UNCHANGED <<supabase_url, supabase_key, links, li, departments, di, page,
                   pi, courses, header_norm, match, sent, response>>

\* lines 23-27
FetchIndex ==
    /\ pc = "fetch_index"
    /\ \E as \in IndexPages : links' = as
    /\ li' = 1
    /\ departments' = <<>>
    /\ log' = Append(log, Event("get", 0, base_url))
    /\ pc' = "discover"
    /\ UNCHANGED <<supabase_url, supabase_key, di, page, pi, courses,
                   header_norm, match, sent, response>>

\* lines 28-34, a link that passes the filter
DiscoverKeep ==
    /\ pc = "discover"
    /\ li =< Len(links)
    /\ IsDepartmentLink(links[li])
    /\ departments' = Append(departments, DepartmentOf(links[li]))
    /\ li' = li + 1
    /\ UNCHANGED <<supabase_url, supabase_key, pc, links, di, page, pi, courses,
                   header_norm, match, sent, response, log>>

\* lines 28-30, a link that does not
DiscoverSkip ==
    /\ pc = "discover"
    /\ li =< Len(links)
    /\ ~IsDepartmentLink(links[li])
    /\ li' = li + 1
    /\ UNCHANGED <<supabase_url, supabase_key, pc, links, departments, di, page,
                   pi, courses, header_norm, match, sent, response, log>>

\* line 36.  main_soup is not read again: the model forgets the index page's
\* links here, so that runs differing only in rejected links coincide.
PrintFound ==
    /\ pc = "discover"
    /\ li > Len(links)
    /\ log' = Append(log, Event("print_found", 0, Len(departments)))
    /\ links' = <<>>
    /\ li' = 0
    /\ di' = 1
    /\ pc' = "loop"
    /\ UNCHANGED <<supabase_url, supabase_key, departments, page, pi,
                   courses, header_norm, match, sent, response>>

\* mutant: courses is not reset for the department
FetchDept_NoReset ==
    /\ pc = "loop"
    /\ di =< Len(departments)
    /\ \E ps \in DepartmentPages : page' = ps
    /\ pi' = 1
    /\ sent' = <<>>
    /\ response' = NoResponse
    /\ log' = log \o << Event("print_scraping", di, departments[di].name),
                        Event("get", di, departments[di].url) >>
    /\ pc' = "scan"
    /\ UNCHANGED <<supabase_url, supabase_key, links, li, departments, di,
                   courses, header_norm, match>>

\* lines 50-56
FetchDept ==
    /\ pc = "loop"
    /\ di =< Len(departments)
    /\ \E ps \in DepartmentPages : page' = ps
    /\ pi' = 1
    /\ courses' = <<>>
    /\ sent' = <<>>
    /\ response' = NoResponse
    /\ log' = log \o << Event("print_scraping", di, departments[di].name),
                        Event("get", di, departments[di].url) >>
    /\ pc' = "scan"
    /\ UNCHANGED <<supabase_url, supabase_key, links, li, departments, di,
                   header_norm, match>>

\* lines 59-61: a <p> without a <b>
SkipNoBold ==
    /\ pc = "scan"
    /\ pi =< Len(page)
    /\ ~page[pi].bold
    /\ pi' = pi + 1
    /\ UNCHANGED <<supabase_url, supabase_key, pc, links, li, departments, di,
                   page, courses, header_norm, match, sent, response, log>>

\* lines 62-65: a <p> with no non-empty line
SkipNoLines ==
    /\ pc = "scan"
    /\ pi =< Len(page)
    /\ page[pi].bold
    /\ Lines(page[pi].text) = <<>>
    /\ pi' = pi + 1
    /\ UNCHANGED <<supabase_url, supabase_key, pc, links, li, departments, di,
                   page, courses, header_norm, match, sent, response, log>>

\* mutant: a header that does not match ends the scan of the page
SkipNoMatch_Breaks ==
    /\ pc = "scan"
    /\ pi =< Len(page)
    /\ page[pi].bold
    /\ LET lines == Lines(page[pi].text)
           r     == ParseHeader(lines[1])
       IN /\ lines # <<>>
          /\ ~r.match.ok
          /\ header_norm' = r.header_norm
          /\ match' = r.match
    /\ pi' = Len(page) + 1
    /\ UNCHANGED <<supabase_url, supabase_key, pc, links, li, departments, di,
                   page, courses, sent, response, log>>

\* lines 67-72: the header does not match
SkipNoMatch ==
    /\ pc = "scan"
    /\ pi =< Len(page)
    /\ page[pi].bold
    /\ LET lines == Lines(page[pi].text)
           r     == ParseHeader(lines[1])
       IN /\ lines # <<>>
          /\ ~r.match.ok
          /\ header_norm' = r.header_norm
          /\ match' = r.match
    /\ pi' = pi + 1
    /\ UNCHANGED <<supabase_url, supabase_key, pc, links, li, departments, di,
                   page, courses, sent, response, log>>

\* lines 67-79: the header matches
EmitRecord ==
    /\ pc = "scan"
    /\ pi =< Len(page)
    /\ page[pi].bold
    /\ LET lines == Lines(page[pi].text)
           r     == ParseHeader(lines[1])
       IN /\ lines # <<>>
          /\ r.match.ok
          /\ header_norm' = r.header_norm
          /\ match' = r.match
          /\ courses' = courses \o r.emitted
    /\ pi' = pi + 1
    /\ UNCHANGED <<supabase_url, supabase_key, pc, links, li, departments, di,
                   page, sent, response, log>>

\* mutant: a reported error ends the script
InsertBatch_Raises ==
    /\ pc = "scan"
    /\ pi > Len(page)
    /\ courses # <<>>
    /\ sent' = courses
    /\ \E r \in Responses :
         /\ response' = r
         /\ log' = log \o << Event("insert", di, <<>>),
                             IF InsertFailed(r)
                             THEN Event("print_error", di, r.error)
                             ELSE Event("print_inserted", di, <<>>) >>
         /\ pc' = IF InsertFailed(r) THEN "insert_error" ELSE "sleep"
    /\ UNCHANGED <<supabase_url, supabase_key, links, li, departments, di, page,
                   pi, courses, header_norm, match>>

\* lines 82-87
InsertBatch ==
    /\ pc = "scan"
    /\ pi > Len(page)
    /\ courses # <<>>
    /\ sent' = courses
    /\ \E r \in Responses :
         /\ response' = r
         /\ log' = log \o << Event("insert", di, <<>>),
                             IF InsertFailed(r)
                             THEN Event("print_error", di, r.error)
                             ELSE Event("print_inserted", di, <<>>) >>
    /\ pc' = "sleep"
    /\ UNCHANGED <<supabase_url, supabase_key, links, li, departments, di, page,
                   pi, courses, header_norm, match>>

\* mutant: the pause is part of the insert branch
SkipInsert_NoPause ==
    /\ pc = "scan"
    /\ pi > Len(page)
    /\ courses = <<>>
    /\ di' = di + 1
    /\ page' = <<>>
    /\ pi' = 0
    /\ header_norm' = <<>>
    /\ match' = NoMatch
    /\ pc' = "loop"
    /\ UNCHANGED <<supabase_url, supabase_key, links, li, departments,
                   courses, sent, response, log>>

\* line 82: nothing to insert
SkipInsert ==
    /\ pc = "scan"
    /\ pi > Len(page)
    /\ courses = <<>>
    /\ pc' = "sleep"
    /\ UNCHANGED <<supabase_url, supabase_key, links, li, departments, di, page,
                   pi, courses, header_norm, match, sent, response, log>>

\* line 90.  dep_soup, header_norm, match and response are not read again
\* before they are reassigned: the model forgets them, and the batch, at the
\* end of the iteration, so that runs differing only in these dead values
\* coincide.  courses is kept: it is line 56 that resets it.
Pause ==
    /\ pc = "sleep"
    /\ log' = Append(log, Event("sleep", di, <<>>))
    /\ di' = di + 1
    /\ page' = <<>>
    /\ pi' = 0
    /\ header_norm' = <<>>
    /\ match' = NoMatch
    /\ sent' = <<>>
    /\ response' = NoResponse
    /\ pc' = "loop"
    /\ UNCHANGED <<supabase_url, supabase_key, links, li, departments, courses>>

\* line 92
Finish ==
    /\ pc = "loop"
    /\ di > Len(departments)
    /\ log' = Append(log, Event("complete", 0, <<>>))
    /\ pc' = "done"
    /\ UNCHANGED <<supabase_url, supabase_key, links, li, departments, di, page,
                   pi, courses, header_norm, match, sent, response>>

Next ==
    \/ StartupFail
    \/ StartupOk
    \/ FetchIndex
    \/ DiscoverKeep
    \/ DiscoverSkip
    \/ PrintFound
    \/ FetchDept
    \/ SkipNoBold
    \/ SkipNoLines
    \/ SkipNoMatch
    \/ EmitRecord
    \/ InsertBatch
    \/ SkipInsert
    \/ Pause
    \/ Finish

Spec == Init /\ [][Next]_vars


-----------------------------------------------------------------------------
(* The header parser on its own: the scan of a page with one <p> element,   *)
(* whose text is a header put together from tokens.                         *)

MaxWords == 2      \* words of a subject code
MaxGap   == 2      \* whitespace characters between two tokens

SubjectWords == {<<"L">>, <<"A","R">>}
CourseNumbers == {<<"1">>, <<"2","0">>, <<"3","A">>}

\* token lists: well-formed codes, then malformed ones
CodeTokens ==
    {subject \o <<number>> :
        subject \in SeqsUpTo(SubjectWords, MaxWords) \ {<<>>},
        number \in CourseNumbers}
    \cup {<<<<"x">>, <<"1">>>>, <<<<"L","1">>>>, <<<<"L">>, <<"4","A","B">>>>, <<<<"L">>>>, <<<<FW_A>>, <<"1">>>>, <<<<"L">>, <<AI_3>>>>}

TitleTokens == {<<<<"t">>>>, <<<<"t">>, <<"u">>>>, <<<<"(","t",")">>, <<"u">>>>, <<<<"t",")">>>>, <<<<"L">>, <<"1">>>>, <<<<"t","(","v",")">>>>}

CreditTokens == {<<<<"(","5",")">>>>, <<<<"(",")">>>>, <<<<"(","1","-","5",")">>>>, <<<<"(">>, <<"5">>, <<")">>>>, <<<<"(","(","5",")">>>>, <<<<"(","5">>>>, <<>>}

TagTokens == {<<>>, <<<<"S","S","c">>>>, <<<<"I","&","S">>, <<"(","x",")">>>>}

RECURSIVE Join(_, _)
Join(tokens, gap) ==
    IF tokens = <<>> THEN <<>>
    ELSE IF Len(tokens) = 1 THEN tokens[1]
    ELSE tokens[1] \o gap \o Join(Tail(tokens), gap)

\* headers with single spaces between the tokens
HeaderTexts ==
    {Join(code \o title \o credits \o tags, <<" ">>) :
        code \in CodeTokens, title \in TitleTokens,
        credits \in CreditTokens, tags \in TagTokens}

\* headers with every gap between tokens filled by the same run of
\* whitespace, and that run around the header as well, or not
GapChars == {" ", NBSP, TAB}

Gaps == SeqsUpTo(GapChars, MaxGap) \ {<<>>}

SpacedTokens ==
    {code \o title \o credits \o tags :
        code \in {<<<<"L">>, <<"1">>>>, <<<<"L">>, <<"A","R">>, <<"3","A">>>>, <<<<"x">>, <<"1">>>>, <<<<FW_A>>, <<"L">>, <<"2","0">>>>},
        title \in {<<<<"t">>>>, <<<<"t">>, <<"u">>>>},
        credits \in {<<<<"(","5",")">>>>, <<<<"(">>, <<"5">>, <<")">>>>, <<>>},
        tags \in {<<>>, <<<<"S","S","c">>>>}}

SpacedTexts ==
    UNION {{pad \o Join(tokens, gap) \o pad :
               tokens \in SpacedTokens, pad \in {<<>>, gap}} : gap \in Gaps}

TheAnchor ==
    [has_href |-> TRUE, href |-> <<"a","n","t","h",".","h","t","m","l">>, text |-> <<" ","A","n","t","h","r","o","p","o","l","o","g","y"," ","(","A","N","T","H",")"," ">>]

\* the script at the start of the scan of a page with the one element p
AtScanOf(p) ==
    /\ supabase_url = "value"
    /\ supabase_key = "value"
    /\ pc = "scan"
    /\ links = <<>>
    /\ li = 0
    /\ departments = <<DepartmentOf(TheAnchor)>>
    /\ di = 1
    /\ page = <<p>>
    /\ pi = 1
    /\ courses = <<>>
    /\ header_norm = <<>>
    /\ match = NoMatch
    /\ sent = <<>>
    /\ response = NoResponse
    /\ log = << Event("create_client", 0, <<>>),
                Event("get", 0, base_url),
                Event("print_found", 0, 1),
                Event("print_scraping", 1, DepartmentOf(TheAnchor).name),
                Event("get", 1, DepartmentOf(TheAnchor).url) >>

InitParse == \E text \in HeaderTexts : AtScanOf([bold |-> TRUE, text |-> text])

InitSpacing == \E text \in SpacedTexts : AtScanOf([bold |-> TRUE, text |-> text])

NextParse ==
    \/ SkipNoMatch
    \/ EmitRecord

SpecParse == InitParse /\ [][NextParse]_vars

SpecSpacing == InitSpacing /\ [][NextParse]_vars

-----------------------------------------------------------------------------
(* Properties of the header parser *)

\* the scan has just handled a <p> with a <b> and a header line: header_norm
\* and match are those of that header
JustParsed ==
    /\ pc = "scan"
    /\ pi > 1
    /\ page[pi - 1].bold
    /\ Lines(page[pi - 1].text) # <<>>

\* ... and the header matched: the last record of courses is its record
JustEmitted == JustParsed /\ match.ok

LastRecord == courses[Len(courses)]

CodeText == GroupText(header_norm, match, "code")

WithoutSpaces(s) == SelectSeq(s, LAMBDA c : c # " ")

IsSubjectWord(w) == w # <<>> /\ \A i \in DOMAIN w : w[i] \in Upper

\* digits, then at most one uppercase letter
IsCourseNumber(w) ==
    \E d \in 1..Len(w) :
        /\ \A i \in 1..d : w[i] \in Digit
        /\ d = Len(w) \/ (d = Len(w) - 1 /\ w[Len(w)] \in Upper)

\* one or more subject words, then a course number, single spaces between
IsCodeShape(c) ==
    LET ws == Split(c, " ")
    IN /\ Len(ws) >= 2
       /\ \A i \in 1..(Len(ws) - 1) : IsSubjectWord(ws[i])
       /\ IsCourseNumber(ws[Len(ws)])

\* the parsed header rewritten with its subject as one word
OneWordHeader ==
    LET ws == Split(CodeText, " ")
    IN Flatten(SubSeq(ws, 1, Len(ws) - 1)) \o <<" ">> \o ws[Len(ws)]
           \o SubSeq(header_norm, match.caps.code[2], Len(header_norm))

\* C1: for a header that matches, the record's code is the matched CODE
\* substring (subject words, then a number with at most one trailing letter)
\* with its spaces removed; it holds no whitespace; and the same header with
\* the subject written as one word gives the same record.
C1_CodeIsCodeTextWithoutSpaces ==
    JustEmitted =>
        /\ IsCodeShape(CodeText)
        /\ LastRecord.code = WithoutSpaces(CodeText)
        /\ \A i \in DOMAIN LastRecord.code : LastRecord.code[i] \notin Whitespace
        /\ ParseHeader(OneWordHeader).emitted = <<LastRecord>>

C1_Witness ==
    /\ JustEmitted
    /\ CodeText = <<"L", " ", "A", "R", " ", "3", "A">>
    /\ LastRecord.code = <<"L", "A", "R", "3", "A">>

\* the text inside the first parenthesis group of hn that opens after
\* position from
FirstGroupAfter(hn, from) ==
    LET open  == CHOOSE p \in (from + 1)..Len(hn) :
                    /\ hn[p] = "("
                    /\ \A j \in (from + 1)..(p - 1) : hn[j] # "("
        close == CHOOSE q \in (open + 1)..Len(hn) :
                    /\ hn[q] = ")"
                    /\ \A j \in (open + 1)..(q - 1) : hn[j] # ")"
    IN SubSeq(hn, open + 1, close - 1)

\* C2: for a header that matches, the record's credits is the text inside
\* the first parenthesis group after the start of the title, character for
\* character (untrimmed, possibly empty or not a number); a later group is
\* not used.
C2_CreditsIsFirstGroupVerbatim ==
    JustEmitted =>
        LastRecord.credits = FirstGroupAfter(header_norm, match.caps.title[1])

C2_Witness ==
    /\ JustEmitted
    /\ LastRecord.credits = <<" ", "5", " ">>
    /\ GroupText(header_norm, match, "tags") = <<"I", "&", "S", " ", "(", "x", ")">>

\* C3: for a header that matches, the record has exactly the fields code,
\* title and credits; the title is the text between the code and the credit
\* group, trimmed, and is not empty; the header cut after its credit group
\* (no tags) gives the same record.
C3_TitleTrimmedTagsDropped ==
    JustEmitted =>
        LET rec   == LastRecord
            open  == match.caps.credits[1] - 1
            close == match.caps.credits[2]
        IN /\ DOMAIN rec = {"code", "title", "credits"}
           /\ rec.title # <<>>
           /\ rec.title[1] \notin Whitespace
           /\ rec.title[Len(rec.title)] \notin Whitespace
           /\ rec.title = Strip(SubSeq(header_norm, match.caps.code[2], open - 1))
           /\ ParseHeader(SubSeq(header_norm, 1, close)).emitted = <<rec>>

C3_Witness ==
    /\ JustEmitted
    /\ LastRecord.title = <<"t", " ", "u">>
    /\ GroupText(header_norm, match, "tags") = <<"S", "S", "c">>

\* the maximal runs of characters of s that are not whitespace
RECURSIVE Tokens(_)
Tokens(s) ==
    IF s = <<>> THEN <<>>
    ELSE IF Head(s) \in Whitespace THEN Tokens(Tail(s))
    ELSE LET n == CHOOSE k \in 1..Len(s) :
                     /\ \A i \in 1..k : s[i] \notin Whitespace
                     /\ k = Len(s) \/ s[k + 1] \in Whitespace
         IN <<SubSeq(s, 1, n)>> \o Tokens(SubSeq(s, n + 1, Len(s)))

\* s with single spaces between its tokens and none around them
SingleSpaced(s) == Join(Tokens(s), <<" ">>)

\* C5: a header gives the same outcome (the same record, or no match) and
\* the same normalized header as the header with single regular spaces
\* between its tokens, also when handed over with the whitespace around it;
\* normalizing a normalized header changes nothing.
C5_WhitespaceInsensitive ==
    JustParsed =>
        LET text   == page[pi - 1].text
            single == ParseHeader(SingleSpaced(text))
        IN /\ single.header_norm = header_norm
           /\ single.emitted = (IF match.ok THEN <<LastRecord>> ELSE <<>>)
           /\ ParseHeader(text).emitted = single.emitted
           /\ Normalize(header_norm) = header_norm

C5_Witness ==
    /\ JustEmitted
    /\ page[pi - 1].text = <<NBSP, TAB, "L", NBSP, TAB, "A", "R", NBSP, TAB, "3", "A", NBSP, TAB,
                             "t", NBSP, TAB, "(", NBSP, TAB, "5", NBSP, TAB, ")", NBSP, TAB>>
    /\ LastRecord = [code |-> <<"L", "A", "R", "3", "A">>, title |-> <<"t">>,
                     credits |-> <<" ", "5", " ">>]

-----------------------------------------------------------------------------
(* Properties of the script *)

ConfigAbsent == supabase_url \in {None, ""} \/ supabase_key \in {None, ""}

\* C8: when the URL or the key is absent or empty, the script ends with the
\* configuration error before the client is created and before any GET or
\* insert; when both are present, there is no configuration error.
C8_ConfigFailsFast ==
    /\ (ConfigAbsent /\ pc # "start") =>
           /\ pc = "config_error"
           /\ log = <<>>
           /\ departments = <<>>
           /\ sent = <<>>
    /\ ~ConfigAbsent => pc # "config_error"

C8_Witness ==
    /\ pc = "config_error"
    /\ supabase_url = "value"
    /\ supabase_key = ""

\* the filter of department discovery, stated on the href
KeptLink(a) ==
    /\ a.has_href
    /\ Len(a.href) > 5
    /\ SubSeq(a.href, Len(a.href) - 4, Len(a.href)) = DotHtml
    /\ \A i \in 1..(Len(a.href) - 7) : SubSeq(a.href, i, i + 7) # Glossary
    /\ \A i \in DOMAIN a.href : a.href[i] # "/"

\* C6: while the index page is gone through, departments holds one entry
\* for each link so far that has an href ending in ".html", longer than 5
\* characters, without "glossary" and without "/", and for no other link,
\* in page order, repeated links repeated; an entry has a non-empty
\* abbreviation, which is the href without ".html", and the URL
\* base_url + href, and neither "glossary" nor "/" in its link.
C6_DepartmentsAreKeptLinks ==
    /\ pc = "discover" =>
           LET kept == SelectSeq(SubSeq(links, 1, li - 1), KeptLink)
           IN /\ Len(departments) = Len(kept)
              /\ \A k \in DOMAIN kept :
                     /\ departments[k].abbrev \o DotHtml = kept[k].href
                     /\ departments[k].url = base_url \o kept[k].href
    /\ \A k \in DOMAIN departments :
           LET d    == departments[k]
               href == SubSeq(d.url, Len(base_url) + 1, Len(d.url))
           IN /\ d.abbrev # <<>>
              /\ SubSeq(d.url, 1, Len(base_url)) = base_url
              /\ href = d.abbrev \o DotHtml
              /\ \A i \in 1..(Len(href) - 7) : SubSeq(href, i, i + 7) # Glossary
              /\ \A i \in DOMAIN href : href[i] # "/"

C6_Witness ==
    /\ pc = "discover"
    /\ li = 3
    /\ links[1].href = Glossary \o DotHtml
    /\ links[2].href = <<"a","n","t","h">> \o DotHtml
    /\ Len(departments) = 1
    /\ departments[1].abbrev = <<"a","n","t","h">>

\* the structural rule on a normalized header: a code, a space, a title of
\* at least one character, then somewhere "(" and after it ")"
MatchesRule(hn) ==
    \E c \in 1..Len(hn) :
        /\ c + 1 =< Len(hn)
        /\ hn[c + 1] = " "
        /\ IsCodeShape(SubSeq(hn, 1, c))
        /\ \E o \in (c + 3)..Len(hn) :
               /\ hn[o] = "("
               /\ \E q \in (o + 1)..Len(hn) : hn[q] = ")"

NoParenthesisGroup(hn) ==
    ~\E o \in DOMAIN hn : hn[o] = "(" /\ \E q \in (o + 1)..Len(hn) : hn[q] = ")"

\* the scan is at a <p> with a <b> and a header line
AtHeader ==
    /\ pc = "scan"
    /\ pi =< Len(page)
    /\ page[pi].bold
    /\ Lines(page[pi].text) # <<>>

\* C4: a step of the scan from a header that does not match the rule, and
\* so from any header with no parenthesis group, leaves courses as it is,
\* has no external effect, and moves the scan to the next <p> of the page.
C4_NonMatchingHeaderSkipped ==
    [][ (/\ AtHeader
         /\ LET hn == Normalize(Lines(page[pi].text)[1])
            IN NoParenthesisGroup(hn) \/ ~MatchesRule(hn))
        => /\ courses' = courses
           /\ pi' = pi + 1
           /\ page' = page
           /\ pc' = "scan"
           /\ log' = log
           /\ sent' = sent ]_vars

C4_Witness ==
    /\ JustParsed
    /\ pi = 3
    /\ header_norm = <<"P","r","e","r","e","q","u","i","s","i","t","e",":"," ","A","N","T","H"," ","1",".">>
    /\ ~match.ok
    /\ Len(courses) = 1
    /\ courses[1].code = <<"A","N","T","H","1">>

\* the first line of text that is not empty, from its first character
\* that is not whitespace
FirstLine(text) ==
    LET from == CHOOSE i \in DOMAIN text :
                    /\ text[i] \notin Whitespace
                    /\ \A j \in 1..(i - 1) : text[j] \in Whitespace
        to   == CHOOSE e \in from..Len(text) :
                    /\ \A j \in from..e : text[j] # NL
                    /\ e = Len(text) \/ text[e + 1] = NL
    IN SubSeq(text, from, to)

\* the records a <p> element stands for: at most one
RecordsOfParagraph(p) ==
    IF p.bold /\ \E i \in DOMAIN p.text : p.text[i] \notin Whitespace
    THEN ParseHeader(FirstLine(p.text)).emitted
    ELSE <<>>

PageRecords == {<<p, RecordsOfParagraph(p)>> : p \in Paragraphs}

RecordsOfPage(ps) ==
    Flatten([i \in DOMAIN ps |-> (CHOOSE x \in PageRecords : x[1] = ps[i])[2]])

\* C10: during the scan of a department's page, courses is the list of the
\* records of the <p> elements gone through so far on that page, one for
\* each with a <b> whose first non-empty line matches, in document order,
\* starting empty; after the scan, courses is the list for the whole page
\* and the batch handed to insert, if any, is that list.
C10_BatchIsOwnPageRecords ==
    /\ pc = "scan" =>
           /\ courses = RecordsOfPage(SubSeq(page, 1, pi - 1))
           /\ sent = <<>>
    /\ pc = "sleep" =>
           /\ courses = RecordsOfPage(page)
           /\ sent = courses

C10_Witness ==
    /\ pc = "sleep"
    /\ di = 2
    /\ Len(page) = 2
    /\ ~page[1].bold
    /\ Len(sent) = 1
    /\ sent[1].code = <<"B","E","2","A">>
    /\ \E i \in DOMAIN log : log[i].ev = "insert" /\ log[i].dep = 1

\* the names of the external effects of department k, in order
EventsOf(k) ==
    LET es == SelectSeq(log, LAMBDA e : e.dep = k)
    IN [i \in DOMAIN es |-> es[i].ev]

IsPrefix(s, t) == Len(s) =< Len(t) /\ SubSeq(t, 1, Len(s)) = s

Startup == <<"create_client", "get", "print_found">>

\* the effects of one department, from its fetch to its pause
Iterations ==
    { <<"print_scraping", "get", "sleep">>,
      <<"print_scraping", "get", "insert", "print_inserted", "sleep">>,
      <<"print_scraping", "get", "insert", "print_error", "sleep">> }

\* C9: the effects so far are: the client, one GET of the index page, then
\* for the departments in list order, each once, the GET of its own URL, at
\* most one insert, one pause; a department's effects start after the
\* pause of the one before; the insert is there exactly when courses is
\* not empty, and the pause whether or not there was an insert.
C9_StrictlySequential ==
    /\ \A i \in DOMAIN log :
           /\ i =< 3 => log[i].ev = Startup[i] /\ log[i].dep = 0
           /\ i > 3 => \/ log[i].dep \in 1..Len(departments)
                       \/ log[i].ev = "complete" /\ i = Len(log) /\ pc = "done"
           /\ (i > 3 /\ i < Len(log) /\ log[i + 1].dep > 0) =>
                  log[i].dep =< log[i + 1].dep
           /\ (log[i].ev = "get" /\ log[i].dep > 0) =>
                  log[i].arg = departments[log[i].dep].url
    /\ \A k \in 1..Len(departments) :
           /\ \E it \in Iterations : IsPrefix(EventsOf(k), it)
           /\ k < di => EventsOf(k) \in Iterations
           /\ k > di => EventsOf(k) = <<>>
    /\ pc = "loop" /\ di =< Len(departments) => EventsOf(di) = <<>>
    /\ pc = "scan" => EventsOf(di) = <<"print_scraping", "get">>
    /\ pc = "sleep" =>
           /\ courses = <<>> => EventsOf(di) = <<"print_scraping", "get">>
           /\ courses # <<>> =>
                  /\ Len(EventsOf(di)) = 4
                  /\ EventsOf(di)[3] = "insert"
                  /\ sent # <<>>
    /\ pc = "done" =>
           /\ di = Len(departments) + 1
           /\ log[Len(log)].ev = "complete"

C9_Witness ==
    /\ pc = "done"
    /\ Len(departments) = 2
    /\ EventsOf(1) = <<"print_scraping", "get", "insert", "print_error", "sleep">>
    /\ EventsOf(2) = <<"print_scraping", "get", "sleep">>

\* the steps outside the scan of a page, and the steps of the scan
Control ==
    \/ StartupFail
    \/ StartupOk
    \/ FetchIndex
    \/ DiscoverKeep
    \/ DiscoverSkip
    \/ PrintFound
    \/ FetchDept
    \/ InsertBatch
    \/ SkipInsert
    \/ Pause
    \/ Finish

\* the scan has a <p> element to handle
AtParagraph == pc = "scan" /\ pi =< Len(page)

\* a step of the scan: the steps of the script from AtParagraph are
\* SkipNoBold, SkipNoLines, SkipNoMatch and EmitRecord, one of which is
\* enabled there, and each moves the scan to the next <p>
ScanStep == AtParagraph /\ pi' = pi + 1

\* The script is one sequential process whose calls return: it takes its
\* next step as long as it has one.  For the steps of the scan, weak
\* fairness is written out, with AtParagraph for ENABLED <<ScanStep>>_vars.
FairSpec ==
    /\ Spec
    /\ WF_vars(Control)
    /\ ([]<>(~AtParagraph) \/ []<><<ScanStep>>_vars)

\* the insert of the department returned a response with an error
Failed == response.has /\ response.error \notin {None, ""}

\* every department has been fetched and paused after, and the script has
\* printed "Scraping complete."
Completed ==
    /\ pc = "done"
    /\ log[Len(log)].ev = "complete"
    /\ \A k \in 1..Len(departments) : EventsOf(k) \in Iterations

\* C7: an insert whose response reports an error is printed, it is the
\* only insert of its department and the script goes on to the pause;
\* after it, and after any insert, the script handles every later
\* department and prints "Scraping complete."
C7_FailedInsertDoesNotStopRun ==
    /\ [](Failed =>
            /\ pc = "sleep"
            /\ Len(EventsOf(di)) = 4
            /\ EventsOf(di)[3] = "insert"
            /\ EventsOf(di)[4] = "print_error")
    /\ [](pc = "sleep" /\ ~Failed =>
            \A i \in DOMAIN log : log[i].dep = di => log[i].ev # "print_error")
    /\ ((Failed \/ pc = "sleep") ~> Completed)

C7_Witness ==
    /\ pc = "done"
    /\ Len(departments) = 2
    /\ EventsOf(1) = <<"print_scraping", "get", "insert", "print_error", "sleep">>
    /\ EventsOf(2) = <<"print_scraping", "get", "insert", "print_inserted", "sleep">>

=============================================================================
